---- MODULE Spec2Model ----
(***************************************************************************)
(* Staff Survey dashboard (src/app.py): one Streamlit script that loads a  *)
(* CSV, renames and validates its columns, and computes three views        *)
(* (Overview, Themes, Quotation Bank) by filtering and counting.  A script *)
(* run is the sequence LoadData, Validate, OverviewTab, ThemesTab,         *)
(* QuotesTab; every user interaction starts the run again.                 *)
(*                                                                         *)
(* Text is a tuple of one-character strings, so that lower-casing,         *)
(* slicing and ordering are computed character by character.               *)
(***************************************************************************)
EXTENDS Integers, Sequences, FiniteSets, TLC

VARIABLES csv, pc, df, total_responses, theme_cols, missing_cols,
          overview, themes, quotes, ctx_select, ctx_clicked

vars == <<csv, pc, df, total_responses, theme_cols, missing_cols,
          overview, themes, quotes, ctx_select, ctx_clicked>>

(***************************************************************************)
(* Bounds of the model.                                                    *)
(***************************************************************************)
\* rows of the uploaded file
MaxRows == 2
\* values picked in one multiselect
MaxSel == 2
\* theme columns of the uploaded file
MaxThemes == 2
\* the dimensions a user picks are the first NumDims of demographic_cols
NumDims == 2
\* expected columns left out of the uploaded file
MaxMissing == 1

(***************************************************************************)
(* Text.                                                                   *)
(***************************************************************************)
Range(s) == {s[i] : i \in DOMAIN s}

Min(a, b) == IF a < b THEN a ELSE b

\* NaN, the missing value of pandas: no text is equal to it
NaN == <<"NaN">>

\* None, the first option of the context selector
None == -1

UpperChars == <<"A","B","C","D","E","F","G","H","I","J","K","L","M",
                "N","O","P","Q","R","S","T","U","V","W","X","Y","Z">>
LowerChars == <<"a","b","c","d","e","f","g","h","i","j","k","l","m",
                "n","o","p","q","r","s","t","u","v","w","x","y","z">>

\* the characters of the model in code point order
CodeOrder == <<" ", ".", "0", "1">> \o UpperChars \o LowerChars

CharCode(c) == CHOOSE i \in DOMAIN CodeOrder : CodeOrder[i] = c

LowerChar(c) ==
    IF \E i \in DOMAIN UpperChars : UpperChars[i] = c
    THEN LowerChars[CHOOSE i \in DOMAIN UpperChars : UpperChars[i] = c]
    ELSE c

\* str.lower()
StrLower(s) == [i \in DOMAIN s |-> LowerChar(s[i])]

\* a < b for two texts, as Python compares str
StrLess(a, b) ==
    \E k \in 1..(Min(Len(a), Len(b)) + 1) :
        /\ \A i \in 1..(k - 1) : a[i] = b[i]
        /\ \/ k = Len(a) + 1 /\ k <= Len(b)
           \/ k <= Len(a) /\ k <= Len(b) /\ CharCode(a[k]) < CharCode(b[k])

\* s[:n]
Slice(s, n) == SubSeq(s, 1, Min(n, Len(s)))

\* the sequences over S, without repetition, that hold exactly the set S
RECURSIVE Perms(_)
Perms(S) ==
    IF S = {} THEN {<<>>}
    ELSE UNION {{<<x>> \o p : p \in Perms(S \ {x})} : x \in S}

\* sorted(values): ascending, values distinct
SortedSeq(S) ==
    CHOOSE p \in Perms(S) :
        \A i \in 1..(Len(p) - 1) : StrLess(p[i], p[i + 1])

RECURSIVE SumSeq(_)
SumSeq(s) == IF s = <<>> THEN 0 ELSE Head(s) + SumSeq(Tail(s))

(***************************************************************************)
(* Frames.  A frame is [cols, rows]: cols the column names in file order,  *)
(* rows the rows in index order, each [id, cells] with id its index label  *)
(* and cells a function from the column names to values.                   *)
(***************************************************************************)
EmptyFrame == [cols |-> <<>>, rows |-> <<>>]

ColSet(f) == Range(f.cols)

\* len(frame)
FrameLen(f) == Len(f.rows)

\* frame.index.tolist()
IndexList(f) == [i \in DOMAIN f.rows |-> f.rows[i].id]

IndexSet(f) == {f.rows[i].id : i \in DOMAIN f.rows}

\* frame.drop(columns=[c])
DropColumn(f, c) ==
    [cols |-> SelectSeq(f.cols, LAMBDA x : x # c),
     rows |-> [i \in DOMAIN f.rows |->
                 [id |-> f.rows[i].id,
                  cells |-> [x \in ColSet(f) \ {c} |-> f.rows[i].cells[x]]]]]

\* frame[mask]: the rows the mask keeps, under the same columns and with
\* their index labels
WithRows(f, kept) == [cols |-> f.cols, rows |-> kept]

\* frame.loc[x, c]: a label outside the index raises KeyError
Loc(f, x, c) ==
    IF x \in IndexSet(f)
    THEN (CHOOSE r \in Range(f.rows) : r.id = x).cells[c]
    ELSE <<"KeyError">>

(***************************************************************************)
(* Configuration of the script.                                            *)
(***************************************************************************)
\* raw column name -> display name
rename_map ==
    ("occupation_group" :> "Occupation group") @@ ("lgbtq" :> "Sexuality") @@
    ("disability" :> "Disability") @@ ("age" :> "Age group") @@
    ("service_line" :> "Service line") @@ ("gender" :> "Gender") @@
    ("payband" :> "Pay band") @@ ("staff_group" :> "Staff group") @@
    ("bme" :> "Ethnicity")

demographic_cols ==
    <<"Occupation group", "Sexuality", "Disability", "Age group",
      "Service line", "Gender", "Pay band", "Staff group", "Ethnicity">>

tags == <<"suggestion", "urgent", "positive", "negative">>

expected_cols == demographic_cols \o <<"Comment">> \o tags

\* the values a flag column counts as true, after lower-casing
TrueTexts == {<<"y","e","s">>, <<"t","r","u","e">>, <<"1">>}

\* characters of a comment shown in the context selector
LabelChars == 50

(***************************************************************************)
(* The uploaded file, as pd.read_csv returns it: a frame whose cells are   *)
(* text or NaN.  The files of the model are built from a pool of rows and  *)
(* a choice of header.                                                     *)
(***************************************************************************)
ThemeNames == <<"wellbeing", "workload", "culture", "pay">>

T_Yes == <<"Y","e","s">>
T_YES == <<"Y","E","S">>
T_no == <<"n","o">>
T_TRUE == <<"T","R","U","E">>
T_true == <<"t","r","u","e">>
T_1 == <<"1">>
T_0 == <<"0">>
T_1f == <<"1",".","0">>
T_Nu == <<"N","u">>
T_Ad == <<"A","d">>
T_x == <<"x">>

\* one row of the pool: its values under the display names
PoolRow(occ, sex, com, urg, pos, th) ==
    [c \in Range(expected_cols) \cup Range(ThemeNames) |->
        CASE c = "Occupation group" -> occ
          [] c = "Sexuality" -> sex
          [] c = "Comment" -> com
          [] c = "urgent" -> urg
          [] c = "positive" -> pos
          [] c = "suggestion" -> T_no
          [] c = "negative" -> NaN
          [] c \in Range(ThemeNames) ->
                th[CHOOSE i \in DOMAIN ThemeNames : ThemeNames[i] = c]
          [] OTHER -> T_x]

RowPool ==
    { PoolRow(T_Nu, T_no, <<"o","k">>, T_Yes, T_no, <<T_Yes, T_no, T_true, T_0>>),
      PoolRow(T_Ad, T_Yes, NaN, T_0, T_TRUE, <<T_TRUE, T_1, T_no, T_no>>),
      PoolRow(NaN, T_no, <<"h","m">>, NaN, NaN, <<NaN, T_YES, T_1, T_0>>),
      PoolRow(T_Nu, T_Yes, <<"n","o"," ","p","a","y">>, T_1, T_true,
              <<T_1f, T_no, NaN, T_Yes>>) }

\* the name a display name has in an exported file
RawName(c) ==
    IF \E r \in DOMAIN rename_map : rename_map[r] = c
    THEN CHOOSE r \in DOMAIN rename_map : rename_map[r] = c
    ELSE c

\* the display name of a column of the file
DisplayName(h) == IF h \in DOMAIN rename_map THEN rename_map[h] ELSE h

\* header of a file: form "export" has the raw names, a saved index column
\* and a division column; form "display" has the display names only
Header(form, missing, k) ==
    LET keep(s) == SelectSeq(s, LAMBDA c : c \notin missing)
        named(s) == IF form = "export" THEN [i \in DOMAIN s |-> RawName(s[i])] ELSE s
    IN  (IF form = "export" THEN <<"Unnamed: 0">> ELSE <<>>)
        \o named(keep(demographic_cols))
        \o (IF form = "export" THEN <<"division">> ELSE <<>>)
        \o keep(<<"Comment">>)
        \o SubSeq(ThemeNames, 1, k)
        \o keep(tags)

CsvFrame(form, missing, k, picks) ==
    LET hdr == Header(form, missing, k)
    IN  [cols |-> hdr,
         rows |-> [i \in DOMAIN picks |->
                     [id |-> i - 1,
                      cells |-> [h \in Range(hdr) |->
                                   CASE h = "Unnamed: 0" -> T_0
                                     [] h = "division" -> T_x
                                     [] OTHER -> picks[i][DisplayName(h)]]]]]

CsvFiles ==
    { CsvFrame(form, missing, k, picks) :
        form \in {"export", "display"},
        missing \in {m \in SUBSET Range(expected_cols) : Cardinality(m) <= MaxMissing},
        k \in 0..Min(MaxThemes, Len(ThemeNames)),
        picks \in UNION {[1..n -> RowPool] : n \in 0..MaxRows} }

(***************************************************************************)
(* Loading: load_data, renaming, dropping division, counting.              *)
(***************************************************************************)
\* df['Comment'].fillna('').astype(str)
CommentText(v) == IF v = NaN THEN <<>> ELSE v

\* load_data(file)
load_data(file) ==
    LET a == IF "Unnamed: 0" \in ColSet(file) THEN DropColumn(file, "Unnamed: 0") ELSE file
    IN  IF "Comment" \in ColSet(a)
        THEN [cols |-> a.cols,
              rows |-> [i \in DOMAIN a.rows |->
                          [id |-> a.rows[i].id,
                           cells |-> [c \in ColSet(a) |->
                                        IF c = "Comment"
                                        THEN CommentText(a.rows[i].cells[c])
                                        ELSE a.rows[i].cells[c]]]]]
        ELSE a

\* df.rename(columns=rename_map)
Rename(f) ==
    LET new == [i \in DOMAIN f.cols |-> DisplayName(f.cols[i])]
    IN  [cols |-> new,
         rows |-> [i \in DOMAIN f.rows |->
                     [id |-> f.rows[i].id,
                      cells |-> [c \in Range(new) |->
                                   f.rows[i].cells[CHOOSE h \in ColSet(f) :
                                                      DisplayName(h) = c]]]]]

\* lines 27-43: the base table
BaseTable(file) ==
    LET r == Rename(load_data(file))
    IN  IF "division" \in ColSet(r) THEN DropColumn(r, "division") ELSE r

NoView == [state |-> "none"]

Init ==
    /\ csv \in CsvFiles
    /\ pc = "start"
    /\ df = EmptyFrame
    /\ total_responses = 0
    /\ theme_cols = <<>>
    /\ missing_cols = <<>>
    /\ overview = NoView
    /\ themes = NoView
    /\ quotes = NoView
    /\ ctx_select = None
    /\ ctx_clicked = FALSE

\* lines 27-46
LoadData ==
    /\ pc = "start"
    /\ df' = BaseTable(csv)
    /\ total_responses' = FrameLen(BaseTable(csv))
    /\ pc' = "loaded"
    /\ UNCHANGED <<csv, theme_cols, missing_cols, overview, themes, quotes,
                   ctx_select, ctx_clicked>>

\* line 56
ThemeCols(f) ==
    SelectSeq(f.cols, LAMBDA c : c \notin Range(demographic_cols \o <<"Comment">> \o tags))

\* variant of MissingCols: only the demographic columns are looked for
MissingColsDemographicOnly(f) ==
    SelectSeq(demographic_cols, LAMBDA c : c \notin ColSet(f))

\* line 60
MissingCols(f) == SelectSeq(expected_cols, LAMBDA c : c \notin ColSet(f))

\* lines 48-63: st.error and st.stop when an expected column is missing
Validate ==
    /\ pc = "loaded"
    /\ theme_cols' = ThemeCols(df)
    /\ missing_cols' = MissingCols(df)
    /\ pc' = IF MissingCols(df) # <<>> THEN "schema_error" ELSE "validated"
    /\ UNCHANGED <<csv, df, total_responses, overview, themes, quotes,
                   ctx_select, ctx_clicked>>

(***************************************************************************)
(* Helpers shared by the three views.                                      *)
(***************************************************************************)
\* the "All" entry of a multiselect over the values of a column
AllText == <<"A","l","l">>

\* str(v) of a cell, as astype(str) gives it
AsStr(v) == IF v = NaN THEN <<"n","a","n">> ELSE v

\* the dimensions offered for picking
SelectableDims == {demographic_cols[i] : i \in 1..Min(NumDims, Len(demographic_cols))}

\* sorted(df[dim].dropna().unique().tolist())
Options(f, dim) ==
    SortedSeq({f.rows[i].cells[dim] : i \in DOMAIN f.rows} \ {NaN})

\* what a multiselect over ["All"] + options can return: the picked options
\* in the order they were picked, none twice
Selections(options) ==
    LET offered == {AllText} \cup Range(options)
    IN  UNION {Perms(S) : S \in {X \in SUBSET offered : Cardinality(X) <= MaxSel}}

\* a / b of Python; a zero divisor has no quotient
Divide(a, b) ==
    IF b = 0 THEN [num |-> a, den |-> 0, fault |-> TRUE]
    ELSE [num |-> a, den |-> b, fault |-> FALSE]

\* "{:.1%}".format(q): q in tenths of a percent, rounded half to even
FormatPercent(q) ==
    LET n == 1000 * q.num
        whole == n \div q.den
        rest == n % q.den
    IN  IF 2 * rest < q.den THEN whole
        ELSE IF 2 * rest > q.den THEN whole + 1
        ELSE IF whole % 2 = 0 THEN whole ELSE whole + 1

(***************************************************************************)
(* Overview tab, lines 72-114.                                             *)
(***************************************************************************)
\* lines 84-87
NormalizeOverview(sel_vals) ==
    LET a == IF AllText \in Range(sel_vals) /\ Len(sel_vals) > 1
             THEN SelectSeq(sel_vals, LAMBDA v : v # AllText)
             ELSE sel_vals
    IN  IF a = <<>> THEN <<AllText>> ELSE a

\* line 88
FilterOverview(d, sel_group, sel_vals) ==
    IF AllText \in Range(sel_vals) THEN d
    ELSE WithRows(d, SelectSeq(d.rows,
                  LAMBDA r : r.cells[sel_group] \in Range(sel_vals)))

\* line 99: value_counts() leaves NaN out; sort_index() orders the labels
ValueCounts(f, col) ==
    LET labels == Options(f, col)
    IN  [i \in DOMAIN labels |->
            [label |-> labels[i],
             Count |-> Cardinality({j \in DOMAIN f.rows :
                                      f.rows[j].cells[col] = labels[i]})]]

\* variant of CountsDf: the share is taken of the filtered subset
CountsDfOfFiltered(f, col, total) ==
    LET counts == ValueCounts(f, col)
    IN  [i \in DOMAIN counts |->
            [label |-> counts[i].label,
             Count |-> counts[i].Count,
             Percent |-> Divide(counts[i].Count, FrameLen(f))]]

\* lines 100-101
CountsDf(f, col, total) ==
    LET counts == ValueCounts(f, col)
    IN  [i \in DOMAIN counts |->
            [label |-> counts[i].label,
             Count |-> counts[i].Count,
             Percent |-> Divide(counts[i].Count, total)]]

\* lines 112-113
DisplayDf(counts_df) ==
    [i \in DOMAIN counts_df |->
        [label |-> counts_df[i].label,
         Count |-> counts_df[i].Count,
         Percent |-> FormatPercent(counts_df[i].Percent)]]

\* line 88: the filter binds filtered_overview; df stays bound to the base table
BaseAfterOverview(d, filtered_overview) == d

OverviewTab ==
    /\ pc = "validated"
    /\ \E sel_group \in SelectableDims :
       \E picked \in Selections(Options(df, sel_group)) :
          LET sel_vals == NormalizeOverview(picked)
              filtered_overview == FilterOverview(df, sel_group, sel_vals)
              counts_df == CountsDf(filtered_overview, sel_group, total_responses)
          IN  /\ df' = BaseAfterOverview(df, filtered_overview)
              /\ overview' = [state |-> "done",
                               sel_group |-> sel_group,
                               picked |-> picked,
                               sel_vals |-> sel_vals,
                               filtered |-> filtered_overview,
                               count |-> FrameLen(filtered_overview),
                               counts_df |-> counts_df,
                               display_df |-> DisplayDf(counts_df)]
    /\ pc' = "overview_done"
    /\ UNCHANGED <<csv, total_responses, theme_cols, missing_cols, themes,
                   quotes, ctx_select, ctx_clicked>>

(***************************************************************************)
(* Themes tab, lines 117-170.                                              *)
(***************************************************************************)
\* lines 127-130
NormalizeThemes(sel_vals_themes) ==
    LET a == IF AllText \in Range(sel_vals_themes) /\ Len(sel_vals_themes) > 1
             THEN SelectSeq(sel_vals_themes, LAMBDA v : v # AllText)
             ELSE sel_vals_themes
    IN  IF a = <<>> THEN <<AllText>> ELSE a

\* lines 123-132; picked is read only when a dimension is chosen
FilterThemesDim(d, grp_dim_themes, picked) ==
    IF grp_dim_themes = "All" THEN d
    ELSE IF AllText \in Range(NormalizeThemes(picked)) THEN d
    ELSE WithRows(d, SelectSeq(d.rows,
                  LAMBDA r : r.cells[grp_dim_themes] \in Range(NormalizeThemes(picked))))

\* line 139: .astype(str).str.lower().isin(['yes','true','1'])
ThemesTagFlag(v) == StrLower(AsStr(v)) \in TrueTexts

\* variant of FilterThemesTag: the selected tag is not applied
FilterThemesTagIgnored(f, sel_tag_themes) == f

\* lines 135-141; the tag is a column of every validated table
FilterThemesTag(f, sel_tag_themes) ==
    IF sel_tag_themes = "All" THEN f
    ELSE IF sel_tag_themes \in ColSet(f)
    THEN WithRows(f, SelectSeq(f.rows,
                  LAMBDA r : ThemesTagFlag(r.cells[sel_tag_themes])))
    ELSE f

\* line 160
ThemeCountFlag(v) == StrLower(AsStr(v)) \in TrueTexts

\* variant of ThemesHasRows: the division is not guarded
ThemesHasRowsUnguarded(count_filtered_themes) == TRUE

\* line 157: the guard of the division
ThemesHasRows(count_filtered_themes) == count_filtered_themes > 0

\* lines 160-161 and 167: ct and pct of one theme
ThemeStat(f, theme) ==
    IF ThemesHasRows(FrameLen(f))
    THEN LET ct == Cardinality({j \in DOMAIN f.rows :
                                  ThemeCountFlag(f.rows[j].cells[theme])})
         IN  [ct |-> ct, pct |-> Divide(ct, FrameLen(f))]
    ELSE [ct |-> 0, pct |-> Divide(0, 1)]

\* lines 156-167; every theme of theme_cols is a column of the filtered frame
ThemeCounts(f, cols) ==
    LET present == SelectSeq(cols, LAMBDA t : ThemesHasRows(FrameLen(f)) => t \in ColSet(f))
    IN  [i \in DOMAIN present |->
            [Theme |-> present[i],
             Count |-> ThemeStat(f, present[i]).ct,
             pct |-> ThemeStat(f, present[i]).pct,
             \* a quotient that is no number formats as no percentage
             Percent |-> IF ThemeStat(f, present[i]).pct.fault THEN -1
                         ELSE FormatPercent(ThemeStat(f, present[i]).pct)]]

\* line 169: the orders sort_values('Count', ascending=False) may give; the
\* default sort kind promises no order among equal counts
SortedByCount(theme_counts) ==
    {[i \in DOMAIN p |-> theme_counts[p[i]]] : p \in
        {q \in Perms(DOMAIN theme_counts) :
            \A i \in 1..(Len(q) - 1) :
                theme_counts[q[i]].Count >= theme_counts[q[i + 1]].Count}}

\* lines 117-119: the Overview block has ended, its locals are read no more
EnterThemesTab ==
    /\ pc = "overview_done"
    /\ pc' = "themes"
    /\ overview' = NoView
    /\ UNCHANGED <<csv, df, total_responses, theme_cols, missing_cols, themes,
                   quotes, ctx_select, ctx_clicked>>

\* variant of BaseAfterThemes: the filters are applied to df itself
BaseAfterThemesRebound(d, filtered_themes) == filtered_themes

\* lines 123, 132, 139: the filters bind filtered_themes; df stays bound to
\* the base table
BaseAfterThemes(d, filtered_themes) == d

ThemesTab ==
    /\ pc = "themes"
    /\ \E grp_dim_themes \in {"All"} \cup SelectableDims :
       \E picked \in (IF grp_dim_themes = "All" THEN {<<AllText>>}
                      ELSE Selections(Options(df, grp_dim_themes))) :
       \E sel_tag_themes \in Range(<<"All">> \o tags) :
          LET by_dim == FilterThemesDim(df, grp_dim_themes, picked)
              filtered_themes == FilterThemesTag(by_dim, sel_tag_themes)
              theme_counts == ThemeCounts(filtered_themes, theme_cols)
              view == [state |-> "done",
                       grp_dim |-> grp_dim_themes,
                       picked |-> picked,
                       tag_options |-> <<"All">> \o tags,
                       sel_tag |-> sel_tag_themes,
                       by_dim |-> by_dim,
                       filtered |-> filtered_themes,
                       count |-> FrameLen(filtered_themes),
                       theme_counts |-> theme_counts]
          IN  /\ df' = BaseAfterThemes(df, filtered_themes)
              /\ IF theme_counts = <<>>
                 \* pd.DataFrame([]) has no 'Count' column: sort_values raises KeyError
                 THEN /\ themes' = [view EXCEPT !.state = "KeyError"]
                      /\ pc' = "crashed"
                 ELSE /\ \E theme_df \in SortedByCount(theme_counts) :
                           themes' = view @@ [theme_df |-> theme_df]
                      /\ pc' = "themes_done"
    /\ UNCHANGED <<csv, total_responses, theme_cols, missing_cols,
                   overview, quotes, ctx_select, ctx_clicked>>

(***************************************************************************)
(* Quotation Bank tab, lines 173-253.                                      *)
(***************************************************************************)
\* variant of NormalizeQuotes: "All" is dropped only when it was picked first
NormalizeQuotesLeadingAll(q_sel) ==
    LET a == IF Len(q_sel) > 1 /\ q_sel[1] = AllText THEN Tail(q_sel) ELSE q_sel
    IN  IF a = <<>> THEN <<AllText>> ELSE a

\* lines 184-187
NormalizeQuotes(q_sel) ==
    LET a == IF AllText \in Range(q_sel) /\ Len(q_sel) > 1
             THEN SelectSeq(q_sel, LAMBDA v : v # AllText)
             ELSE q_sel
    IN  IF a = <<>> THEN <<AllText>> ELSE a

\* lines 177-189; picked is read only when a dimension is chosen
FilterQuotesDim(d, q_dim, picked) ==
    IF q_dim = "All" THEN d
    ELSE IF AllText \in Range(NormalizeQuotes(picked)) THEN d
    ELSE WithRows(d, SelectSeq(d.rows,
                  LAMBDA r : r.cells[q_dim] \in Range(NormalizeQuotes(picked))))

\* variant of QuotesThemeFlag: the value is not lower-cased
QuotesThemeFlagCaseSensitive(v) == AsStr(v) \in TrueTexts

\* line 195
QuotesThemeFlag(v) == StrLower(AsStr(v)) \in TrueTexts

\* lines 192-197
FilterQuotesTheme(f, sel_theme_quotes) ==
    IF sel_theme_quotes = "All" THEN f
    ELSE IF sel_theme_quotes \in ColSet(f)
    THEN WithRows(f, SelectSeq(f.rows,
                  LAMBDA r : QuotesThemeFlag(r.cells[sel_theme_quotes])))
    ELSE f

\* line 204
QuotesTagFlag(v) == StrLower(AsStr(v)) \in TrueTexts

\* lines 201-206
FilterQuotesTag(f, sel_tag_quotes) ==
    IF sel_tag_quotes = "All" THEN f
    ELSE IF sel_tag_quotes \in ColSet(f)
    THEN WithRows(f, SelectSeq(f.rows,
                  LAMBDA r : QuotesTagFlag(r.cells[sel_tag_quotes])))
    ELSE f

\* lines 221-228
ColsToDisplay(f, q_dim, sel_theme_quotes, sel_tag_quotes) ==
    LET cols_to_display ==
            (IF q_dim # "All" /\ q_dim \in ColSet(f) THEN <<q_dim>> ELSE <<>>)
         \o (IF "Comment" \in ColSet(f) THEN <<"Comment">> ELSE <<>>)
         \o (IF sel_theme_quotes # "All" /\ sel_theme_quotes \in ColSet(f)
             THEN <<sel_theme_quotes>> ELSE <<>>)
         \o (IF sel_tag_quotes # "All" /\ sel_tag_quotes \in ColSet(f)
             THEN <<sel_tag_quotes>> ELSE <<>>)
    IN  SelectSeq(cols_to_display, LAMBDA c : c \in ColSet(f))

\* lines 229-234
Listing(f, final_cols_to_display) ==
    IF FrameLen(f) # 0 /\ final_cols_to_display # <<>> THEN "table"
    ELSE IF FrameLen(f) = 0 THEN "no comments"
    ELSE "select columns"

\* line 238
ViewerShown(f) == FrameLen(f) # 0 /\ "Comment" \in ColSet(f)

\* line 242, format_func: the label of one option
FormatFunc(f, x) ==
    IF x # None /\ x \in IndexSet(f)
    THEN [option |-> x,
          text |-> Slice(Loc(f, x, "Comment"), LabelChars),
          keyerror |-> Loc(f, x, "Comment") = <<"KeyError">>]
    ELSE [option |-> x, text |-> <<"N","o","n","e">>, keyerror |-> FALSE]

\* lines 239-244: what the selector returns.  The value held under the key
\* 'quote_context_select' is returned when it is an option of this run; a
\* held value that is no longer an option is either reset to the first
\* option or handed back as it is
SelectboxValues(held, options) ==
    IF held \in Range(options) THEN {held} ELSE {options[1], held}

\* frame.loc[[x], cols]: the rows labelled x, cut to cols
LocRows(f, x, cols) ==
    IF x \in IndexSet(f)
    THEN [keyerror |-> FALSE,
          cols |-> cols,
          rows |-> LET hit == SelectSeq(f.rows, LAMBDA r : r.id = x)
                   IN  [i \in DOMAIN hit |->
                          [id |-> hit[i].id,
                           cells |-> [c \in Range(cols) |-> hit[i].cells[c]]]]]
    ELSE [keyerror |-> TRUE, cols |-> cols, rows |-> <<>>]

\* lines 246-248
FinalContextCols(f, themecols) ==
    SelectSeq(demographic_cols \o themecols \o tags \o <<"Comment">>,
              LAMBDA c : c \in ColSet(f))

\* variant of ContextLookup: the row is read without the membership test
ContextLookupUnchecked(f, sel_idx, button, themecols) ==
    IF sel_idx # None /\ button
    THEN [outcome |-> "context",
          shown |-> LocRows(f, sel_idx, FinalContextCols(f, themecols))]
    ELSE [outcome |-> "none",
          shown |-> [keyerror |-> FALSE, cols |-> <<>>, rows |-> <<>>]]

\* lines 245-253
ContextLookup(f, sel_idx, button, themecols) ==
    IF sel_idx # None /\ button
    THEN IF sel_idx \in IndexSet(f)
         THEN [outcome |-> "context",
               shown |-> LocRows(f, sel_idx, FinalContextCols(f, themecols))]
         ELSE [outcome |-> "warning",
               shown |-> [keyerror |-> FALSE, cols |-> <<>>, rows |-> <<>>]]
    ELSE [outcome |-> "none",
          shown |-> [keyerror |-> FALSE, cols |-> <<>>, rows |-> <<>>]]

\* lines 173-175: the Themes block has ended, its locals are read no more
EnterQuotesTab ==
    /\ pc = "themes_done"
    /\ pc' = "quotes"
    /\ themes' = NoView
    /\ UNCHANGED <<csv, df, total_responses, theme_cols, missing_cols, overview,
                   quotes, ctx_select, ctx_clicked>>

\* lines 177, 189, 195, 204: the filters bind q_filtered; df stays bound to
\* the base table
BaseAfterQuotes(d, q_filtered) == d

QuotesTab ==
    /\ pc = "quotes"
    /\ \E q_dim \in {"All"} \cup SelectableDims :
       \E picked \in (IF q_dim = "All" THEN {<<AllText>>}
                      ELSE Selections(Options(df, q_dim))) :
       \E sel_theme_quotes \in Range(<<"All">> \o theme_cols) :
       \E sel_tag_quotes \in Range(<<"All">> \o tags) :
          LET by_dim == FilterQuotesDim(df, q_dim, picked)
              by_theme == FilterQuotesTheme(by_dim, sel_theme_quotes)
              q_filtered == FilterQuotesTag(by_theme, sel_tag_quotes)
              options == <<None>> \o IndexList(q_filtered)
              view == [state |-> "done",
                       q_dim |-> q_dim,
                       picked |-> picked,
                       sel_theme |-> sel_theme_quotes,
                       sel_tag |-> sel_tag_quotes,
                       by_dim |-> by_dim,
                       by_theme |-> by_theme,
                       filtered |-> q_filtered,
                       count |-> FrameLen(q_filtered),
                       listing |-> Listing(q_filtered,
                                      ColsToDisplay(q_filtered, q_dim,
                                                    sel_theme_quotes, sel_tag_quotes))]
          IN  /\ df' = BaseAfterQuotes(df, q_filtered)
              /\ IF ViewerShown(q_filtered)
                 THEN \E sel_idx \in SelectboxValues(ctx_select, options) :
                        /\ quotes' = view @@
                             [viewer |-> TRUE,
                              options |-> options,
                              labels |-> [i \in DOMAIN options |->
                                            FormatFunc(q_filtered, options[i])],
                              sel_label |-> FormatFunc(q_filtered, sel_idx),
                              sel_idx |-> sel_idx,
                              button |-> ctx_clicked,
                              lookup |-> ContextLookup(q_filtered, sel_idx,
                                                       ctx_clicked, theme_cols)]
                        /\ ctx_select' = sel_idx
                 ELSE /\ quotes' = view @@
                             [viewer |-> FALSE,
                              options |-> <<>>,
                              labels |-> <<>>,
                              sel_label |-> FormatFunc(q_filtered, None),
                              sel_idx |-> None,
                              button |-> FALSE,
                              lookup |-> ContextLookup(q_filtered, None, FALSE,
                                                       theme_cols)]
                      /\ ctx_select' = ctx_select
    /\ ctx_clicked' = FALSE
    /\ pc' = "quotes_done"
    /\ UNCHANGED <<csv, total_responses, theme_cols, missing_cols, overview,
                   themes>>

(***************************************************************************)
(* User interactions.  Each one starts the script again; the values of the *)
(* filter widgets are read by the tabs of the next run.                    *)
(***************************************************************************)
\* a response is picked in the context selector
SelectResponse ==
    /\ pc = "quotes_done"
    /\ quotes.viewer
    /\ \E x \in Range(quotes.options) :
          /\ x # ctx_select
          /\ ctx_select' = x
    /\ pc' = "start"
    /\ quotes' = NoView
    /\ UNCHANGED <<csv, df, total_responses, theme_cols, missing_cols,
                   overview, themes, ctx_clicked>>

\* "See context" is pressed; the button is drawn when a response is selected
ClickSeeContext ==
    /\ pc = "quotes_done"
    /\ quotes.viewer
    /\ quotes.sel_idx # None
    /\ ctx_clicked' = TRUE
    /\ pc' = "start"
    /\ quotes' = NoView
    /\ UNCHANGED <<csv, df, total_responses, theme_cols, missing_cols,
                   overview, themes, ctx_select>>

\* a dimension, value, theme or tag widget is changed
ChangeFilter ==
    /\ pc \in {"quotes_done", "crashed"}
    /\ pc' = "start"
    /\ quotes' = NoView
    /\ themes' = NoView
    /\ UNCHANGED <<csv, df, total_responses, theme_cols, missing_cols,
                   overview, ctx_select, ctx_clicked>>

(***************************************************************************)
(* The specification.                                                      *)
(***************************************************************************)
Next ==
    \/ LoadData
    \/ Validate
    \/ OverviewTab
    \/ EnterThemesTab
    \/ ThemesTab
    \/ EnterQuotesTab
    \/ QuotesTab
    \/ SelectResponse
    \/ ClickSeeContext
    \/ ChangeFilter

Spec == Init /\ [][Next]_vars

(***************************************************************************)
(* Definitions the properties are stated with.  None of them is used by    *)
(* the actions above.                                                      *)
(***************************************************************************)
UpperOf(c) ==
    IF \E i \in DOMAIN LowerChars : LowerChars[i] = c
    THEN UpperChars[CHOOSE i \in DOMAIN LowerChars : LowerChars[i] = c]
    ELSE c

\* "yes", "true", "1" and their case variants, written out
TrueVariants ==
    UNION {{t \in [1..Len(w) -> {w[i] : i \in 1..Len(w)} \cup {UpperOf(w[i]) : i \in 1..Len(w)}] :
                \A i \in 1..Len(w) : t[i] \in {w[i], UpperOf(w[i])}} :
           w \in {<<"y","e","s">>, <<"t","r","u","e">>, <<"1">>}}

\* the rows of frame f whose flag column c holds a true value
TrueRows(f, c) == SelectSeq(f.rows, LAMBDA r : r.cells[c] \in TrueVariants)

\* the rows of the base table a selection on a dimension stands for: a
\* selection without concrete values stands for every row
RowsSelected(d, dim, picked) ==
    LET concrete == Range(picked) \ {AllText}
    IN  IF dim = "All" \/ concrete = {} THEN d.rows
        ELSE SelectSeq(d.rows, LAMBDA r : r.cells[dim] \in concrete)

\* the columns absent from the uploaded file under both of their names
AbsentCols == {c \in Range(expected_cols) : c \notin ColSet(csv) /\ RawName(c) \notin ColSet(csv)}

ViewsComputed == {v \in {overview, themes, quotes} : v # NoView}

CountSum(counts_df) == SumSeq([i \in DOMAIN counts_df |-> counts_df[i].Count])

\* frame f holds rows of frame d, in d's order, under d's columns
SubFrame(f, d) ==
    /\ f.cols = d.cols
    /\ \E keep \in SUBSET DOMAIN d.rows :
          f.rows = SelectSeq(d.rows, LAMBDA r : \E i \in keep : d.rows[i] = r)

(***************************************************************************)
(* C1.  On the unfiltered table (selection "All") the Overview counts of a *)
(* dimension add up to the number of rows of the table, also when rows     *)
(* hold no value in that dimension.                                        *)
(***************************************************************************)
C1_CountsSumToRowCount ==
    (overview # NoView /\ AllText \in Range(overview.sel_vals))
        => CountSum(overview.counts_df) = FrameLen(df)

(***************************************************************************)
(* C2.  A table with every expected column and no theme column passes      *)
(* validation and the Themes aggregation ends with an empty result, not    *)
(* with an error.                                                          *)
(***************************************************************************)
C2_ZeroThemesGivesEmptyResult ==
    (AbsentCols = {} /\ theme_cols = <<>> /\ themes # NoView)
        => /\ themes.state = "done"
           /\ themes.theme_df = <<>>

(***************************************************************************)
(* C3.  When an expected column is absent after renaming, the run ends in  *)
(* the schema error, the absent columns are reported and no view is        *)
(* computed; when none is absent there is no schema error.                 *)
(***************************************************************************)
C3_SchemaErrorIffColumnAbsent ==
    /\ pc \notin {"start", "loaded"} =>
          /\ (pc = "schema_error") <=> (AbsentCols # {})
          /\ Range(missing_cols) = AbsentCols
    /\ AbsentCols # {} =>
          /\ pc \in {"start", "loaded", "schema_error"}
          /\ ViewsComputed = {}

C3_Witness ==
    /\ pc = "schema_error"
    /\ missing_cols = <<"Comment">>
    /\ FrameLen(df) = MaxRows
    /\ "division" \in ColSet(csv)

(***************************************************************************)
(* C4.  The context lookup checks again that the selected identifier is in *)
(* the filtered subset: an identifier outside it ends in the warning with  *)
(* no row shown, an identifier inside it shows exactly its row, cut to the *)
(* demographic, theme, tag and comment columns of the table.  Neither the  *)
(* lookup nor the labels of the selector read a row outside the subset,    *)
(* and the view is computed to its end.                                    *)
(***************************************************************************)
ContextColumns ==
    (Range(demographic_cols) \cup Range(theme_cols) \cup Range(tags) \cup {"Comment"})
        \cap ColSet(df)

C4_LookupRevalidatesMembership ==
    quotes # NoView =>
        /\ quotes.state = "done"
        /\ quotes.listing \in {"table", "no comments"}
        /\ \A i \in DOMAIN quotes.labels : ~quotes.labels[i].keyerror
        /\ ~quotes.sel_label.keyerror
        /\ ~quotes.lookup.shown.keyerror
        /\ IF quotes.button /\ quotes.sel_idx # None
           THEN IF quotes.sel_idx \in IndexSet(quotes.filtered)
                THEN /\ quotes.lookup.outcome = "context"
                     /\ Range(quotes.lookup.shown.cols) = ContextColumns
                     /\ quotes.lookup.shown.rows =
                          << [id |-> quotes.sel_idx,
                              cells |-> [c \in ContextColumns |->
                                           (CHOOSE r \in Range(df.rows) :
                                               r.id = quotes.sel_idx).cells[c]]] >>
                ELSE /\ quotes.lookup.outcome = "warning"
                     /\ quotes.lookup.shown.rows = <<>>
           ELSE quotes.lookup.outcome = "none"

\* a response was selected, a filter then excluded it, and the lookup was asked
C4_Witness ==
    /\ quotes # NoView
    /\ quotes.lookup.outcome = "warning"
    /\ quotes.sel_idx \in IndexSet(df) \ IndexSet(quotes.filtered)
    /\ quotes.sel_tag # "All"

(***************************************************************************)
(* C5.  As claimed: the tag filter takes any non-empty set of tags as its  *)
(* selection and keeps the rows where one of the selected tags is true.    *)
(***************************************************************************)
SelectedTags(option) == IF option = "All" THEN {} ELSE {option}

C5_TagFilterTakesSetOfTags ==
    themes # NoView =>
        /\ \A S \in (SUBSET Range(tags)) \ {{}} :
              \E o \in Range(themes.tag_options) : SelectedTags(o) = S
        /\ themes.filtered.rows =
              IF themes.sel_tag = "All" THEN themes.by_dim.rows
              ELSE SelectSeq(themes.by_dim.rows,
                             LAMBDA r : \E t \in SelectedTags(themes.sel_tag) :
                                           r.cells[t] \in TrueVariants)

(***************************************************************************)
(* C5, amended.  The tag filter of the Themes and Quotation Bank views     *)
(* takes one option of "All" and the four tags: "All" keeps every row, a   *)
(* tag keeps exactly the rows where that tag is true.                      *)
(***************************************************************************)
C5_TagFilterTakesOneTag ==
    /\ themes # NoView =>
          /\ themes.sel_tag \in {"All"} \cup Range(tags)
          /\ \A o \in Range(themes.tag_options) : Cardinality(SelectedTags(o)) <= 1
          /\ themes.filtered.cols = themes.by_dim.cols
          /\ themes.filtered.rows =
                IF themes.sel_tag = "All" THEN themes.by_dim.rows
                ELSE TrueRows(themes.by_dim, themes.sel_tag)
    /\ quotes # NoView =>
          /\ quotes.sel_tag \in {"All"} \cup Range(tags)
          /\ quotes.filtered.cols = quotes.by_theme.cols
          /\ quotes.filtered.rows =
                IF quotes.sel_tag = "All" THEN quotes.by_theme.rows
                ELSE TrueRows(quotes.by_theme, quotes.sel_tag)

\* the urgent filter keeps a row and drops a row that is positive only
C5_Witness ==
    /\ themes # NoView
    /\ themes.sel_tag = "urgent"
    /\ FrameLen(themes.filtered) = 1
    /\ \E r \in Range(themes.by_dim.rows) :
          /\ r.cells["positive"] \in TrueVariants
          /\ r.cells["urgent"] \notin TrueVariants

(***************************************************************************)
(* C6.  In each of the three views the rows kept by the dimension filter   *)
(* depend only on the concrete values of the selection: "All" alone, or an *)
(* empty selection, keeps the whole table; "All" together with concrete    *)
(* values keeps what the concrete values keep, in whatever order they were *)
(* picked.                                                                 *)
(***************************************************************************)
C6_SelectionNormalizedAlike ==
    /\ overview # NoView =>
          /\ overview.filtered.cols = df.cols
          /\ overview.filtered.rows =
                RowsSelected(df, overview.sel_group, overview.picked)
    /\ themes # NoView =>
          /\ themes.by_dim.cols = df.cols
          /\ themes.by_dim.rows = RowsSelected(df, themes.grp_dim, themes.picked)
    /\ quotes # NoView =>
          /\ quotes.by_dim.cols = df.cols
          /\ quotes.by_dim.rows = RowsSelected(df, quotes.q_dim, quotes.picked)

\* a concrete value picked first and "All" after it
C6_Witness ==
    /\ quotes # NoView
    /\ Len(quotes.picked) = 2
    /\ quotes.picked[2] = AllText
    /\ FrameLen(quotes.by_dim) > 0
    /\ FrameLen(quotes.by_dim) < FrameLen(df)

(***************************************************************************)
(* C7.  As claimed: a theme's percentage is count / subset size, lies in   *)
(* [0,1], is computed without dividing by zero, and is 0 exactly when the  *)
(* filtered subset is empty.                                               *)
(***************************************************************************)
ThemePercentSound(e) ==
    /\ ~e.pct.fault
    /\ e.pct.den > 0
    /\ 0 <= e.pct.num /\ e.pct.num <= e.pct.den
    /\ e.Count = Len(TrueRows(themes.filtered, e.Theme))
    /\ themes.count > 0 => e.pct.num * themes.count = e.Count * e.pct.den

C7_PercentZeroIffSubsetEmpty ==
    themes # NoView =>
        \A i \in DOMAIN themes.theme_counts :
            /\ ThemePercentSound(themes.theme_counts[i])
            /\ (themes.theme_counts[i].pct.num = 0) <=> (themes.count = 0)

(***************************************************************************)
(* C7, amended.  A theme's percentage is count / subset size, lies in      *)
(* [0,1], is computed without dividing by zero, and is 0 whenever the      *)
(* filtered subset is empty; it is 0 exactly when the theme's count is 0.  *)
(***************************************************************************)
C7_PercentZeroIffCountZero ==
    themes # NoView =>
        /\ themes.count = FrameLen(themes.filtered)
        /\ \A i \in DOMAIN themes.theme_counts :
              /\ ThemePercentSound(themes.theme_counts[i])
              /\ themes.count = 0 => themes.theme_counts[i].pct.num = 0
              /\ (themes.theme_counts[i].pct.num = 0)
                    <=> (themes.theme_counts[i].Count = 0)

\* a theme no row of a non-empty subset has, beside a theme a row has
C7_Witness ==
    /\ themes # NoView
    /\ themes.count > 0
    /\ \E i \in DOMAIN themes.theme_counts : themes.theme_counts[i].Count = 0
    /\ \E i \in DOMAIN themes.theme_counts : themes.theme_counts[i].Count > 0

(***************************************************************************)
(* C8.  The Themes tag filter, the Themes count, the Quotation Bank theme  *)
(* filter and the Quotation Bank tag filter take the same values as true:  *)
(* "yes", "true", "1" in any letter case, and nothing else.                *)
(***************************************************************************)
C8_OneTruthinessRule ==
    /\ themes # NoView =>
          /\ themes.sel_tag # "All" =>
                themes.filtered.rows = TrueRows(themes.by_dim, themes.sel_tag)
          /\ themes.count > 0 =>
                \A i \in DOMAIN themes.theme_counts :
                    themes.theme_counts[i].Count =
                        Len(TrueRows(themes.filtered, themes.theme_counts[i].Theme))
    /\ quotes # NoView =>
          /\ quotes.sel_theme # "All" =>
                quotes.by_theme.rows = TrueRows(quotes.by_dim, quotes.sel_theme)
          /\ quotes.sel_tag # "All" =>
                quotes.filtered.rows = TrueRows(quotes.by_theme, quotes.sel_tag)

\* an upper-case flag is kept by the theme filter, a flag that is not one of
\* the three texts is dropped, and the tag filter acts on what is left
C8_Witness ==
    /\ quotes # NoView
    /\ quotes.sel_theme # "All"
    /\ quotes.sel_tag # "All"
    /\ \E r \in Range(quotes.by_theme.rows) :
          r.cells[quotes.sel_theme] \in {T_TRUE, T_YES}
    /\ \E r \in Range(quotes.by_dim.rows) :
          r.cells[quotes.sel_theme] \in {NaN, T_1f}
    /\ FrameLen(quotes.filtered) > 0

(***************************************************************************)
(* C9.  Each Overview category's percentage is its count in the filtered   *)
(* subset over the number of rows of the table as loaded; the percentages  *)
(* add up to at most 1; the categories are in ascending label order.       *)
(***************************************************************************)
C9_OverviewShareOfAllResponses ==
    overview # NoView =>
        LET c == overview.counts_df
        IN  /\ total_responses = FrameLen(BaseTable(csv))
            /\ \A i \in DOMAIN c :
                  /\ ~c[i].Percent.fault
                  /\ c[i].Percent.den = total_responses
                  /\ c[i].Percent.num = c[i].Count
                  /\ c[i].Count =
                        Cardinality({j \in DOMAIN overview.filtered.rows :
                            overview.filtered.rows[j].cells[overview.sel_group]
                                = c[i].label})
            /\ {c[i].label : i \in DOMAIN c} =
                  {overview.filtered.rows[j].cells[overview.sel_group] :
                      j \in DOMAIN overview.filtered.rows} \ {NaN}
            /\ SumSeq([i \in DOMAIN c |-> c[i].Percent.num]) <= total_responses
            /\ \A i \in DOMAIN c : \A j \in DOMAIN c :
                  i < j => StrLess(c[i].label, c[j].label)

\* a filtered subset smaller than the table
C9_Witness ==
    /\ overview # NoView
    /\ Len(overview.counts_df) > 0
    /\ overview.count < total_responses

(***************************************************************************)
(* C10.  Once the base table is built, no step of any view changes it or   *)
(* the total response count, and every view's subset is taken from the     *)
(* whole base table.                                                       *)
(***************************************************************************)
ViewsFromBase ==
    /\ \A v \in ViewsComputed : SubFrame(v.filtered, df)
    /\ (themes # NoView /\ themes.grp_dim = "All" /\ themes.sel_tag = "All")
          => themes.filtered = df
    /\ (quotes # NoView /\ quotes.q_dim = "All" /\ quotes.sel_theme = "All"
            /\ quotes.sel_tag = "All")
          => quotes.filtered = df

C10_BaseTableNeverChanges ==
    [][df # EmptyFrame =>
          /\ df' = df
          /\ total_responses' = total_responses
          /\ ViewsFromBase']_vars

\* a filtered Quotation Bank and a context lookup over the unchanged table
C10_Witness ==
    /\ quotes # NoView
    /\ quotes.lookup.outcome = "context"
    /\ FrameLen(quotes.filtered) < FrameLen(df)
    /\ df = BaseTable(csv)
    /\ total_responses = MaxRows

====
